---------------------------- MODULE Spec2Model ----------------------------
(*
  aioeXVHP: the signed direct upload of Client.upload_to_streamable
  (src/aioexvhp/client.py) as a state machine.

  One upload attempt is one coroutine.  Code between two awaits runs without
  interleaving on the event loop: `running` names the attempt that holds the
  loop inside the synchronous section of lines 539-585 (digest pass, signing),
  and is 0 when every coroutine is suspended on a network call.

  Byte strings.  A source's content is a string of pairwise distinct bytes, so
  a byte string read from sources is determined by the list of segments
  [src, lo, hi) it was read from; adjacent segments are merged.  SHA-256 and
  HMAC-SHA256 are injective symbolic constructors.

  Specifications: Spec (one attempt), SpecConc (two attempts on one Client),
  SpecLive (one attempt whose network calls are eventually answered),
  SpecSigner (direct calls of the static signer, recorded in `signer`),
  SpecBackends (the upload operation of one of the other four backends,
  recorded in `backend`) and SpecClient (constructing a Client, recorded in
  `client`, then one get_<backend>_video_stream on it, recorded in `fetch`).
*)
EXTENDS Integers, Sequences, FiniteSets, TLC

VARIABLES
    pc,            \* per attempt: position in upload_to_streamable
    upload_data,   \* per attempt: the StreamableUploadData argument
    upload_creds,  \* per attempt: local upload_creds (line 529)
    req_datetime,  \* per attempt: local req_datetime (line 539)
    headers,       \* per attempt: local headers dict (line 541), insertion ordered
    hash,          \* per attempt: bytes fed to the sha256 object (line 551)
    outcome,       \* per attempt: what the coroutine returned or raised
    calls,         \* per attempt: the requests it issued on the session, in order
    body,          \* per attempt: bytes the transport read from the stream for the signed PUT
    srcops,        \* per attempt: seeks and reads its own code made on the stream
    stream,        \* per source: the stream object (kind, content length, read position)
    issued,        \* the service: issued[n] is the attempt shortcode n was minted for
    running,       \* the attempt inside a synchronous section, or 0
    signer,        \* direct calls of the signer: arguments and what each call gave
    backend,       \* one upload on another backend: operation, argument, position, calls
    client,        \* the Client: how it was constructed, and its session's default headers
    fetch          \* one get_<backend>_video_stream: operation, video id, position, calls

\* state of the operations other than upload_to_streamable
others == <<signer, backend, client, fetch>>

vars == <<pc, upload_data, upload_creds, req_datetime, headers, hash, outcome,
          calls, body, srcops, stream, issued, running, signer, backend, client, fetch>>

-----------------------------------------------------------------------------
(* Bounds of the model *)

MaxChunks == 2      \* content lengths reach MaxChunks digest chunks plus one byte
MaxDay == 1         \* request instants fall on days 0..MaxDay

Attempts == {1, 2}
Sources == {1, 2}

-----------------------------------------------------------------------------
(* Program constants *)

STREAMABLE_UPLOAD_MAX_SIZE == 250 * 1048576
STREAMABLE_URL == "https://streamable.com"
STREAMABLE_API_URL == "https://ajax.streamable.com"
STREAMABLE_AWS_BUCKET_URL == "https://streamables-upload.s3.amazonaws.com"
STREAMABLE_REACT_VERSION == "5a6120a04b6db864113d706cc6a6131cb8ca3587"

DigestChunk == 4096       \* stream.read(4096)
TransferChunk == 65536    \* the transport's read size while it sends data=stream

-----------------------------------------------------------------------------
(* Strings as character sequences: filenames *)

Mp4Name == <<"v", ".", "m", "p", "4">>
MkvName == <<"v", ".", "m", "k", "v">>

Filenames ==
    { Mp4Name, MkvName,
      <<"v", ".", "a", "v", "i">>,
      <<"v", ".", "M", "P", "4">>,
      <<"m", "p", "4">>,
      <<"v", ".", "m", "p", "4", ".", "t">> }

\* str.endswith(suffix)
EndsWith(s, suffix) ==
    /\ Len(s) >= Len(suffix)
    /\ SubSeq(s, Len(s) - Len(suffix) + 1, Len(s)) = suffix

\* str.endswith((".mkv", ".mp4"))
EndsWithAny(s, suffixes) == \E x \in suffixes : EndsWith(s, x)

\* Path(filename).stem for a name without directory separators
Stem(name) ==
    LET dots == {i \in 1..Len(name) : name[i] = "."}
        last == CHOOSE i \in dots : \A j \in dots : j <= i
    IN  IF dots # {} /\ last > 1 /\ last < Len(name)
        THEN SubSeq(name, 1, last - 1)
        ELSE name

NoTitle == [some |-> FALSE, v |-> <<>>]
SomeTitle(v) == [some |-> TRUE, v |-> v]

-----------------------------------------------------------------------------
(* Byte strings and stream objects *)

Min(a, b) == IF a <= b THEN a ELSE b

Segment(src, lo, hi) == [src |-> src, lo |-> lo, hi |-> hi]

\* len(chunk)
ChunkLen(seg) == seg.hi - seg.lo

\* bytes + chunk
Cat(bytes, seg) ==
    IF seg.hi = seg.lo THEN bytes
    ELSE IF bytes # <<>> /\ bytes[Len(bytes)].src = seg.src
                         /\ bytes[Len(bytes)].hi = seg.lo
         THEN [bytes EXCEPT ![Len(bytes)].hi = seg.hi]
         ELSE Append(bytes, seg)

Kinds == {"BytesIO", "BufferedReader", "StreamReader"}

\* isinstance(upload_data.stream, (BufferedReader, BytesIO))
\* variant: the isinstance test lets every stream kind through
IsSeekableInstanceAny(kind) == kind \in Kinds
IsSeekableInstance(kind) == kind \in {"BufferedReader", "BytesIO"}

\* stream.read(n): the chunk returned
\* what read(n) of the object returns: at most n bytes, except that an object
\* whose read ignores its limit (greedy >= 0, from that offset on) returns one more
ReadSize(s, n) == IF s.greedy >= 0 /\ s.pos >= s.greedy THEN n + 1 ELSE n

ReadChunk(src, s, n) == Segment(src, s.pos, Min(s.pos + ReadSize(s, n), s.len))

\* stream.read(n): the stream afterwards
AfterRead(s, n) == [s EXCEPT !.pos = Min(s.pos + ReadSize(s, n), s.len)]

\* stream.seek(offset, SEEK_SET)
Seek(s, offset) == [s EXCEPT !.pos = offset]

-----------------------------------------------------------------------------
(* Time: datetime.now(tz=timezone.utc) and its two strftime renderings *)

Instants ==
    [day : 0..MaxDay, sec : {0, 24 * 60 * 60 - 1}, usec : {0, 1000000 - 1}]

NoInstant == [day |-> -1, sec |-> 0, usec |-> 0]

\* req_time.strftime("%Y%m%d")
DateStamp(t) == [t |-> "datestamp", day |-> t.day]

\* req_time.strftime("%Y%m%dT%H%M%SZ")
AmzDate(t) == [t |-> "amzdate", day |-> t.day, sec |-> t.sec]

-----------------------------------------------------------------------------
(* Header names, and Python's ordering and case folding of them *)

\* the header names in use, each capitalised name followed later by its lower case
NameOrder ==
    << "Authorization", "Content-Type", "Host", "User-Agent", "X-AMZ-ACL",
       "X-AMZ-Content-SHA256", "X-AMZ-Date", "X-AMZ-Security-Token",
       "authorization", "content-type", "host", "user-agent", "x-amz-acl",
       "x-amz-content-sha256", "x-amz-date", "x-amz-security-token" >>

\* the header names and query keys in use, in the order sorted() puts them
\* (code point order: the empty string, then upper case before lower case)
StrOrder ==
    << "", "Authorization", "Content-Type", "Host", "User-Agent", "X-AMZ-ACL",
       "X-AMZ-Content-SHA256", "X-AMZ-Date", "X-AMZ-Security-Token",
       "a", "authorization", "b", "content-type", "host", "user-agent", "x-amz-acl",
       "x-amz-content-sha256", "x-amz-date", "x-amz-security-token" >>

Rank(name) == CHOOSE i \in 1..Len(StrOrder) : StrOrder[i] = name

\* str.lower()
Lower(name) ==
    IF \E i \in 1..(Len(NameOrder) \div 2) : NameOrder[i] = name
    THEN NameOrder[(CHOOSE i \in 1..(Len(NameOrder) \div 2) : NameOrder[i] = name)
                   + Len(NameOrder) \div 2]
    ELSE name

\* str.upper() of a method name
Upper(method) ==
    CASE method = "put" -> "PUT"
      [] method = "get" -> "GET"
      [] method = "post" -> "POST"
      [] OTHER -> method

\* variant: the method is not checked against the list
HttpVerbsAny ==
    {"CONNECT", "DELETE", "GET", "HEAD", "OPTIONS", "PATCH", "POST", "PUT", "TRACE",
     "FETCH"}
HttpVerbs ==
    {"CONNECT", "DELETE", "GET", "HEAD", "OPTIONS", "PATCH", "POST", "PUT", "TRACE"}

\* header values
Str(s) == [t |-> "str", s |-> s, ws |-> FALSE]
UnsignedPayload == Str("UNSIGNED-PAYLOAD")

\* str.strip(): ws says the string has leading or trailing whitespace
Strip(v) == IF v.t = "str" THEN [v EXCEPT !.ws = FALSE] ELSE v

-----------------------------------------------------------------------------
(* Python dicts: insertion-ordered sequences of <<key, value>> *)

Keys(d) == [i \in 1..Len(d) |-> d[i][1]]
HasKey(d, k) == \E i \in 1..Len(d) : d[i][1] = k
Get(d, k) == d[CHOOSE i \in 1..Len(d) : d[i][1] = k][2]

\* d[k] = v, and d.update({k: v})
DictSet(d, k, v) ==
    IF HasKey(d, k)
    THEN [i \in 1..Len(d) |-> IF d[i][1] = k THEN <<k, v>> ELSE d[i]]
    ELSE Append(d, <<k, v>>)

RECURSIVE InsertByKey(_, _)
InsertByKey(sorted, item) ==
    IF sorted = <<>> THEN <<item>>
    ELSE IF Rank(item[1]) < Rank(sorted[1][1])
         THEN <<item>> \o sorted
         ELSE <<sorted[1]>> \o InsertByKey(Tail(sorted), item)

\* dict(sorted(d.items()))
\* variant: the items are taken in insertion order
SortedItemsUnsorted(d) == d
RECURSIVE SortedItems(_)
SortedItems(d) ==
    IF d = <<>> THEN <<>>
    ELSE InsertByKey(SortedItems(Tail(d)), d[1])

\* for hk, hv in items: headers_dict[hk.lower()] = hv.strip()
RECURSIVE LowerStripInto(_, _)
LowerStripInto(headers_dict, items) ==
    IF items = <<>> THEN headers_dict
    ELSE LowerStripInto(
             DictSet(headers_dict, Lower(items[1][1]), Strip(items[1][2])),
             Tail(items))

\* urllib.parse.urlencode(s) of a str: "" gives "", any other str raises
\* TypeError ("not a valid non-string sequence or mapping object")
UrlEncode(s) ==
    IF s = "" THEN [error |-> "", value |-> ""]
    ELSE [error |-> "TypeError", value |-> ""]

\* for qk, qv in items: query_dict[urlencode(qk)] = urlencode(qv)
RECURSIVE UrlEncodeInto(_, _)
UrlEncodeInto(query_dict, items) ==
    IF items = <<>> THEN [error |-> "", value |-> query_dict]
    ELSE LET qv == UrlEncode(items[1][2])
             qk == UrlEncode(items[1][1])
         IN  IF qv.error # "" THEN [error |-> qv.error, value |-> <<>>]
             ELSE IF qk.error # "" THEN [error |-> qk.error, value |-> <<>>]
             ELSE UrlEncodeInto(DictSet(query_dict, qk.value, qv.value), Tail(items))

-----------------------------------------------------------------------------
(* SHA-256, HMAC-SHA256 and the SigV4 signer *)

\* sha256(data).hexdigest(), and hash.hexdigest() of the bytes fed to hash
Sha256Hex(data) == [t |-> "sha256hex", of |-> data]

\* Client.__hmac_sha256_sign, hmac_new(key, msg, sha256)
HmacSha256(key, msg) == [t |-> "hmac", key |-> key, msg |-> msg]

\* variant: the chain signs the service before the region
AwsApiSigningKeyServiceFirst(key_secret, datestamp, region, service) ==
    HmacSha256(HmacSha256(HmacSha256(HmacSha256([t |-> "AWS4", secret |-> key_secret],
        datestamp), service), region), "aws4_request")
\* Client.__aws_api_signing_key
AwsApiSigningKey(key_secret, datestamp, region, service) ==
    LET key_date == HmacSha256([t |-> "AWS4", secret |-> key_secret], datestamp)
        key_region == HmacSha256(key_date, region)
        key_service == HmacSha256(key_region, service)
        key_signing == HmacSha256(key_service, "aws4_request")
    IN  key_signing

\* "/".join([req_time.strftime("%Y%m%d"), region, service, "aws4_request"])
\* variant: the scope is dated from the local date, a day later than UTC after midnight
CredentialScopeLocalDate(req_time, region, service) ==
    [datestamp |-> DateStamp([req_time EXCEPT !.day = IF req_time.sec = 0 THEN @ ELSE @ + 1]),
     region |-> region, service |-> service, terminator |-> "aws4_request"]
CredentialScope(req_time, region, service) ==
    [datestamp |-> DateStamp(req_time), region |-> region,
     service |-> service, terminator |-> "aws4_request"]

\* the canonical request: "\n".join((method, uri, query, headers, signed, payload))
\* variant: the payload line is always UNSIGNED-PAYLOAD
CanonicalRequestUnsignedPayload(method, uri, query_dict, headers_dict) ==
    [method |-> method,
     uri |-> uri,
     query |-> [i \in 1..Len(query_dict) |-> <<query_dict[i][1], ":", query_dict[i][2]>>],
     headers |-> headers_dict,
     signed_headers |-> Keys(headers_dict),
     payload_hash |-> UnsignedPayload]
CanonicalRequest(method, uri, query_dict, headers_dict) ==
    [method |-> method,
     uri |-> uri,
     query |-> [i \in 1..Len(query_dict) |-> <<query_dict[i][1], ":", query_dict[i][2]>>],
     headers |-> headers_dict,
     signed_headers |-> Keys(headers_dict),
     payload_hash |-> Get(headers_dict, "x-amz-content-sha256")]

\* the string that is signed: algorithm, timestamp, scope, hash of the request
StringToSign(algorithm, req_time, credential_scope, canonical_request) ==
    [algorithm |-> algorithm,
     timestamp |-> AmzDate(req_time),
     credential_scope |-> credential_scope,
     request_hash |-> Sha256Hex(canonical_request)]

NoAuthorization == [t |-> "authorization", algorithm |-> "", accessKeyId |-> <<>>,
                    credential_scope |-> <<>>, signed_headers |-> <<>>,
                    signature |-> <<>>]

\* Client.__streamable_aws_authorization: the value returned, or the error raised
StreamableAwsAuthorization(method, hdrs, req_time, credential, uri, query, region, service) ==
    LET m == Upper(method)
        headers_dict == LowerStripInto(<<>>, SortedItems(hdrs))
        algorithm == "AWS4-HMAC-SHA256"
        credential_scope == CredentialScope(req_time, region, service)
        signed_headers == Keys(headers_dict)
        query_dict == UrlEncodeInto(<<>>, SortedItems(query))
        signature ==
            HmacSha256(
                AwsApiSigningKey(credential.secretAccessKey,
                                 DateStamp(req_time), region, service),
                StringToSign(algorithm, req_time, credential_scope,
                             CanonicalRequest(m, uri, query_dict.value, headers_dict)))
    IN  IF m \notin HttpVerbs
        THEN [error |-> "AssertionError", value |-> NoAuthorization]
        ELSE IF ~HasKey(headers_dict, "x-amz-content-sha256")
        THEN [error |-> "AssertionError", value |-> NoAuthorization]
        ELSE IF query_dict.error # ""
        THEN [error |-> query_dict.error, value |-> NoAuthorization]
        ELSE [error |-> "",
              value |-> [t |-> "authorization",
                         algorithm |-> algorithm,
                         accessKeyId |-> credential.accessKeyId,
                         credential_scope |-> credential_scope,
                         signed_headers |-> signed_headers,
                         signature |-> signature]]

-----------------------------------------------------------------------------
(* Values of the upload workflow *)

NoData == [filename |-> <<>>, filesize |-> 0, stream |-> 0, title |-> NoTitle,
           upload_region |-> ""]

NoCredential == [accessKeyId |-> <<>>, secretAccessKey |-> <<>>, sessionToken |-> <<>>]
NoCreds == [shortcode |-> 0, credentials |-> NoCredential,
            transcoder_options |-> [token |-> <<>>]]

\* StreamableUploadCredential(**(await res.json())): the service mints shortcode n
\* together with temporary credentials and a transcoder token of its own
MintCredential(n) ==
    [shortcode |-> n,
     credentials |-> [accessKeyId |-> <<"AKID", n>>,
                      secretAccessKey |-> <<"SECRET", n>>,
                      sessionToken |-> <<"SESSION", n>>],
     transcoder_options |-> [token |-> <<"TOKEN", n>>]]

\* variant: the validator keeps a url that was supplied
StreamableVideoKeepsUrl(shortcode, url) ==
    [shortcode |-> shortcode,
     url |-> IF url = <<>> THEN <<STREAMABLE_URL, shortcode>> ELSE url]
\* StreamableVideo(shortcode=...): url_validator ignores the url it is given
StreamableVideo(shortcode, url) ==
    [shortcode |-> shortcode, url |-> <<STREAMABLE_URL, shortcode>>]

NoOutcome == [kind |-> "none"]
Returned(value) == [kind |-> "returned", value |-> value]
Raised(error, status, msg) ==
    [kind |-> "raised", error |-> error, status |-> status, msg |-> msg]

Statuses == {200, 400, 403, 500}

\* res.raise_for_status(): raises ClientResponseError unless the status is below 400
\* variant: the status is never looked at
RaiseForStatusNever(status) == FALSE
\* variant: only 5xx raises
RaiseForStatusServerOnly(status) == status >= 500
\* variant: 400 itself does not raise
RaiseForStatusAbove400(status) == status > 400
RaiseForStatus(status) == status >= 400

\* a request handed to the session; status 0 while it is in flight
Request(method, base, endpoint, shortcode, payload, hdrs) ==
    [method |-> method,
     url |-> [base |-> base, endpoint |-> endpoint, shortcode |-> shortcode],
     payload |-> payload, headers |-> hdrs, status |-> 0]

\* the response to the request in flight arrives
Complete(log, status) == [log EXCEPT ![Len(log)].status = status]

\* the local upload_creds of attempt a
\* variant: the credentials are kept on the Client, the last ones acquired win
UploadCredsShared(a) ==
    IF issued = <<>> THEN upload_creds[a] ELSE upload_creds[issued[Len(issued)]]
UploadCreds(a) == upload_creds[a]

\* "title" of the metadata: the stem of the filename when title is None
\* variant: the whole filename stands in for a missing title
MetadataTitleFilename(ud) == IF ud.title.some THEN ud.title.v ELSE ud.filename
MetadataTitle(ud) == IF ud.title.some THEN ud.title.v ELSE Stem(ud.filename)

\* assert upload_data.filename.endswith((".mkv", ".mp4"))
ValidFilename(filename) ==
    EndsWithAny(filename, {<<".", "m", "k", "v">>, <<".", "m", "p", "4">>})

\* assert upload_data.filesize <= STREAMABLE_UPLOAD_MAX_SIZE
\* variant: the limit itself is refused
ValidFilesizeStrict(filesize) == filesize < STREAMABLE_UPLOAD_MAX_SIZE
ValidFilesize(filesize) == filesize <= STREAMABLE_UPLOAD_MAX_SIZE

\* urlparse(url).netloc
Netloc(url) ==
    CASE url = STREAMABLE_AWS_BUCKET_URL -> "streamables-upload.s3.amazonaws.com"
      [] url = STREAMABLE_API_URL -> "ajax.streamable.com"
      [] OTHER -> "streamable.com"

\* the headers dict of lines 541-548
InitialHeaders(creds, t) ==
    << <<"Host", Str(Netloc(STREAMABLE_AWS_BUCKET_URL))>>,
       <<"Content-Type", Str("application/octet-stream")>>,
       <<"X-AMZ-ACL", Str("public-read")>>,
       <<"X-AMZ-Content-SHA256", UnsignedPayload>>,
       <<"X-AMZ-Security-Token", [t |-> "token", v |-> creds.credentials.sessionToken]>>,
       <<"X-AMZ-Date", AmzDate(t)>> >>

\* upload_data.stream.seek(0, SEEK_SET) before and after the read loop
\* variant: no rewind before the read loop
SeekBeforeHashMissing(s) == s
SeekBeforeHash(s) == Seek(s, 0)
\* variant: no rewind after the read loop
SeekAfterHashMissing(s) == s
SeekAfterHash(s) == Seek(s, 0)

\* an exception leaves the coroutine: it reaches the caller, nothing runs after it
\* variant: a failure restarts the attempt instead of reaching the caller
RaiseAndRetry(a, err) ==
    /\ pc' = [pc EXCEPT ![a] = "idle"]
    /\ outcome' = outcome
    /\ running' = 0
\* variant: a handler around the await swallows the exception, the coroutine goes on
RaiseSwallowed(a, err) ==
    /\ UNCHANGED <<pc, outcome>>
    /\ running' = 0
\* variant: a handler catches the exception and waits on an event nobody sets
RaiseAndHang(a, err) ==
    /\ pc' = [pc EXCEPT ![a] = "hung"]
    /\ outcome' = outcome
    /\ running' = 0
Raise(a, err) ==
    /\ pc' = [pc EXCEPT ![a] = "failed"]
    /\ outcome' = [outcome EXCEPT ![a] = err]
    /\ running' = 0

HttpError(status) == Raised("ClientResponseError", status, "")

-----------------------------------------------------------------------------
(* Client.upload_to_streamable, one action per run of code between awaits *)

\* lines 521-531: the call, validation, and the GET that asks for a shortcode
Call(a, ud) ==
    /\ UNCHANGED others
    /\ pc[a] = "idle"
    /\ running = 0
    /\ upload_data' = [upload_data EXCEPT ![a] = ud]
    /\ IF ~ValidFilename(ud.filename)
       THEN /\ Raise(a, Raised("AssertionError", 0, "Streamable supports MKV/MP4 files only!"))
            /\ UNCHANGED calls
       ELSE IF ~ValidFilesize(ud.filesize)
       THEN /\ Raise(a, Raised("AssertionError", 0, "Streamable supports 250.0MB maximum!"))
            /\ UNCHANGED calls
       ELSE /\ pc' = [pc EXCEPT ![a] = "await_shortcode"]
            /\ calls' = [calls EXCEPT ![a] =
                   Append(@, Request("GET", STREAMABLE_API_URL, "shortcode", 0,
                                     [version |-> STREAMABLE_REACT_VERSION,
                                      size |-> ud.filesize], <<>>))]
            /\ UNCHANGED <<outcome, running>>
    /\ UNCHANGED <<upload_creds, req_datetime, headers, hash, body, srcops,
                   stream, issued>>

\* lines 230-232 and 533-536: the shortcode response, then the metadata PUT
ShortcodeResponse(a, status) ==
    /\ UNCHANGED others
    /\ pc[a] = "await_shortcode"
    /\ running = 0
    /\ IF RaiseForStatus(status)
       THEN /\ calls' = [calls EXCEPT ![a] = Complete(@, status)]
            /\ Raise(a, HttpError(status))
            /\ UNCHANGED <<upload_creds, issued>>
       ELSE LET creds == MintCredential(Len(issued) + 1)
                ud == upload_data[a]
            IN  /\ issued' = Append(issued, a)
                /\ upload_creds' = [upload_creds EXCEPT ![a] = creds]
                /\ calls' = [calls EXCEPT ![a] =
                       Append(Complete(@, status),
                              Request("PUT", STREAMABLE_API_URL, "videos", creds.shortcode,
                                      [original_name |-> ud.filename,
                                       original_size |-> ud.filesize,
                                       title |-> MetadataTitle(ud),
                                       upload_source |-> "web"], <<>>))]
                /\ pc' = [pc EXCEPT ![a] = "await_metadata"]
                /\ UNCHANGED <<outcome, running>>
    /\ UNCHANGED <<upload_data, req_datetime, headers, hash, body, srcops, stream>>

\* lines 537-552: the metadata response, the request instant, the headers, and
\* the start of the digest pass on a seekable stream
MetadataResponse(a, status, now) ==
    /\ UNCHANGED others
    /\ pc[a] = "await_metadata"
    /\ running = 0
    /\ calls' = [calls EXCEPT ![a] = Complete(@, status)]
    /\ IF RaiseForStatus(status)
       THEN /\ Raise(a, HttpError(status))
            /\ UNCHANGED <<req_datetime, headers, hash, srcops, stream>>
       ELSE LET src == upload_data[a].stream
            IN  /\ req_datetime' = [req_datetime EXCEPT ![a] = now]
                /\ headers' = [headers EXCEPT ![a] = InitialHeaders(UploadCreds(a), now)]
                /\ running' = a
                /\ UNCHANGED outcome
                /\ IF IsSeekableInstance(stream[src].kind)
                   THEN /\ hash' = [hash EXCEPT ![a] = <<>>]
                        /\ stream' = [stream EXCEPT ![src] = SeekBeforeHash(@)]
                        /\ srcops' = [srcops EXCEPT ![a].seeks = @ + 1]
                        /\ pc' = [pc EXCEPT ![a] = "hashing"]
                   ELSE /\ pc' = [pc EXCEPT ![a] = "sign"]
                        /\ UNCHANGED <<hash, srcops, stream>>
    /\ UNCHANGED <<upload_data, upload_creds, body, issued>>

\* if len(chunk) > 4096: raise IOError("Got more data than expected!")
\* variant: the length of the chunk is not checked
TooLongUnchecked(chunk) == FALSE
TooLong(chunk) == ChunkLen(chunk) > DigestChunk

\* lines 554-561: one turn of the read loop, and the loop's exit
DigestRead(a) ==
    /\ UNCHANGED others
    /\ pc[a] = "hashing"
    /\ running = a
    /\ LET src == upload_data[a].stream
           chunk == ReadChunk(src, stream[src], DigestChunk)
           read == AfterRead(stream[src], DigestChunk)
       IN  /\ srcops' = [srcops EXCEPT ![a] =
                  [seeks |-> IF ChunkLen(chunk) > 0 THEN @.seeks ELSE @.seeks + 1,
                   reads |-> @.reads + 1]]
           /\ IF ChunkLen(chunk) > 0
              THEN IF TooLong(chunk)
                   THEN /\ Raise(a, Raised("IOError", 0, "Got more data than expected!"))
                        /\ stream' = [stream EXCEPT ![src] = read]
                        /\ UNCHANGED <<hash, headers>>
                   ELSE /\ hash' = [hash EXCEPT ![a] = Cat(@, chunk)]
                        /\ stream' = [stream EXCEPT ![src] = read]
                        /\ UNCHANGED <<pc, outcome, running, headers>>
              ELSE /\ stream' = [stream EXCEPT ![src] = SeekAfterHash(read)]
                   /\ headers' = [headers EXCEPT ![a] =
                          DictSet(@, "X-AMZ-Content-SHA256", Sha256Hex(hash[a]))]
                   /\ pc' = [pc EXCEPT ![a] = "sign"]
                   /\ UNCHANGED <<hash, outcome, running>>
    /\ UNCHANGED <<upload_data, upload_creds, req_datetime, calls, body, issued>>

\* lines 563-585: the Authorization header, then the signed PUT is issued
Sign(a) ==
    /\ UNCHANGED others
    /\ pc[a] = "sign"
    /\ running = a
    /\ LET creds == UploadCreds(a)
           auth == StreamableAwsAuthorization(
                       "PUT", headers[a], req_datetime[a], creds.credentials,
                       <<"/upload/", creds.shortcode>>, <<>>,
                       upload_data[a].upload_region, "s3")
           signed == DictSet(headers[a], "Authorization", auth.value)
       IN  IF auth.error # ""
           THEN /\ Raise(a, Raised(auth.error, 0, ""))
                /\ UNCHANGED <<headers, calls, body>>
           ELSE /\ headers' = [headers EXCEPT ![a] = signed]
                /\ calls' = [calls EXCEPT ![a] =
                       Append(@, Request("PUT", STREAMABLE_AWS_BUCKET_URL, "upload",
                                         creds.shortcode,
                                         [data |-> upload_data[a].stream], signed))]
                /\ body' = [body EXCEPT ![a] = [bytes |-> <<>>, done |-> FALSE]]
                /\ pc' = [pc EXCEPT ![a] = "await_put"]
                /\ running' = 0
                /\ UNCHANGED outcome
    /\ UNCHANGED <<upload_data, upload_creds, req_datetime, hash, srcops, stream,
                   issued>>

\* line 576, inside the await: the transport reads the next chunk of data=stream
\* from the stream's read position and sends it; an empty chunk ends the body
Transfer(a) ==
    /\ UNCHANGED others
    /\ pc[a] = "await_put"
    /\ running = 0
    /\ ~body[a].done
    /\ LET src == upload_data[a].stream
           chunk == ReadChunk(src, stream[src], TransferChunk)
       IN  /\ stream' = [stream EXCEPT ![src] = AfterRead(@, TransferChunk)]
           /\ body' = [body EXCEPT ![a] =
                  [bytes |-> Cat(@.bytes, chunk), done |-> ChunkLen(chunk) = 0]]
    /\ UNCHANGED <<pc, upload_data, upload_creds, req_datetime, headers, hash,
                   outcome, calls, srcops, issued, running>>

\* lines 586-592: the response to the signed PUT, then the transcode POST.
\* The bucket answers with success only once it has the whole body.
PutResponse(a, status) ==
    /\ UNCHANGED others
    /\ pc[a] = "await_put"
    /\ running = 0
    /\ body[a].done \/ status >= 400
    /\ IF RaiseForStatus(status)
       THEN /\ calls' = [calls EXCEPT ![a] = Complete(@, status)]
            /\ Raise(a, HttpError(status))
       ELSE LET creds == UploadCreds(a)
            IN  /\ calls' = [calls EXCEPT ![a] =
                       Append(Complete(@, status),
                              Request("POST", STREAMABLE_API_URL, "transcode",
                                      creds.shortcode,
                                      [shortcode |-> creds.shortcode,
                                       size |-> upload_data[a].filesize,
                                       token |-> creds.transcoder_options.token,
                                       upload_source |-> "web",
                                       url |-> <<STREAMABLE_AWS_BUCKET_URL, "upload",
                                                 creds.shortcode>>], <<>>))]
                /\ pc' = [pc EXCEPT ![a] = "await_transcode"]
                /\ UNCHANGED <<outcome, running>>
    /\ UNCHANGED <<upload_data, upload_creds, req_datetime, headers, hash, body,
                   srcops, stream, issued>>

\* lines 593-595: the response to the transcode POST, then the result
TranscodeResponse(a, status) ==
    /\ UNCHANGED others
    /\ pc[a] = "await_transcode"
    /\ running = 0
    /\ calls' = [calls EXCEPT ![a] = Complete(@, status)]
    /\ IF RaiseForStatus(status)
       THEN Raise(a, HttpError(status))
       ELSE /\ pc' = [pc EXCEPT ![a] = "done"]
            /\ outcome' = [outcome EXCEPT ![a] =
                   Returned(StreamableVideo(UploadCreds(a).shortcode, <<>>))]
            /\ UNCHANGED running
    /\ UNCHANGED <<upload_data, upload_creds, req_datetime, headers, hash, body,
                   srcops, stream, issued>>

\* lines 529-593, at any of the four awaits: the caller cancels the task.
\* asyncio throws CancelledError into the coroutine at the await it is suspended
\* on; upload_to_streamable has no try/except/finally, so the error leaves it.
\* The request in flight is aborted and is never completed.
Aborted == 0 - 1

Cancel(a) ==
    /\ UNCHANGED others
    /\ pc[a] \in {"await_shortcode", "await_metadata", "await_put", "await_transcode"}
    /\ running = 0
    /\ calls' = [calls EXCEPT ![a] = Complete(@, Aborted)]
    /\ Raise(a, Raised("CancelledError", Aborted, ""))
    /\ UNCHANGED <<upload_data, upload_creds, req_datetime, headers, hash, body,
                   srcops, stream, issued>>

-----------------------------------------------------------------------------
(* Client.__init__ and the session's default headers *)

\* __default_user_agent__ = f"{__package__}/{__version__}"
DefaultUserAgent == Str("aioexvhp/version")

\* an optional argument: None, or a value
None == [some |-> FALSE, v |-> Str("")]
Some(v) == [some |-> TRUE, v |-> v]

\* session.headers is a case-insensitive multidict: `key in headers`
CIHas(d, k) == \E i \in 1..Len(d) : Lower(d[i][1]) = Lower(k)

\* session.headers[key] = value: the entry of that name, in any case, is replaced
CISet(d, k, v) ==
    IF CIHas(d, k)
    THEN [i \in 1..Len(d) |-> IF Lower(d[i][1]) = Lower(k) THEN <<k, v>> ELSE d[i]]
    ELSE Append(d, <<k, v>>)

\* the value of a name, in any case
CIGet(d, k) == d[CHOOSE i \in 1..Len(d) : Lower(d[i][1]) = Lower(k)][2]

\* no Client was constructed yet
NoClient == [state |-> "none", session |-> None, user_agent |-> None, headers |-> <<>>, error |-> ""]

\* Client.__init__(session, user_agent): the Client, or the error raised.
\* session is None or Some(headers of the ClientSession handed in); headers
\* are the default headers of the session after the call.  The message of the
\* exception of line 81 subscripts the ClientSession, which raises TypeError.
NewClient(session, user_agent) ==
    LET given == IF session.some THEN session.v ELSE <<>>
    IN  IF CIHas(given, "User-Agent") /\ user_agent.some
        THEN [state |-> "failed", session |-> session, user_agent |-> user_agent,
              headers |-> given, error |-> "TypeError"]
        ELSE [state |-> "ready", session |-> session, user_agent |-> user_agent,
              headers |-> CISet(given, "User-Agent",
                                IF user_agent.some THEN user_agent.v ELSE DefaultUserAgent),
              error |-> ""]

\* Client(): a session of its own, the default user agent
DefaultClient == NewClient(None, None)

\* the headers a request of the session goes out with: the session's default
\* headers, each replaced by the header of that name passed with the request
RECURSIVE MergeInto(_, _)
MergeInto(result, items) ==
    IF items = <<>> THEN result
    ELSE MergeInto(CISet(result, items[1][1], items[1][2]), Tail(items))

\* self.__session.put(..., headers=headers)
Transmitted(hdrs) == MergeInto(client.headers, hdrs)

\* no get_<backend>_video_stream was called
NoFetch == [op |-> "none", video_id |-> 0, pc |-> "idle", calls |-> <<>>, outcome |-> NoOutcome]

-----------------------------------------------------------------------------
(* Inputs and the specifications of upload_to_streamable *)

\* no upload on another backend was started
NoUpload ==
    [op |-> "none", pc |-> "idle", data |-> [filename |-> <<>>, filesize |-> 0],
     calls |-> <<>>, outcome |-> NoOutcome]

Lens == {0, 1} \cup {k * DigestChunk + d : k \in 1..MaxChunks, d \in {0, 1}}

InitPos(len) == {0, len \div 2, len}

StreamObjects(kinds, lens) ==
    UNION {{[kind |-> k, len |-> l, pos |-> p, greedy |-> -1] : p \in InitPos(l)} :
           k \in kinds, l \in lens}

\* isinstance (line 550) accepts subclasses: a BufferedReader subclass whose
\* read returns more than asked, from the start or after the first chunk
GreedyObjects(lens) ==
    {[kind |-> "BufferedReader", len |-> l, pos |-> 0, greedy |-> g] :
         l \in {n \in lens : n > DigestChunk}, g \in {0, DigestChunk}}

Filesizes == {1, STREAMABLE_UPLOAD_MAX_SIZE, STREAMABLE_UPLOAD_MAX_SIZE + 1, 600 * 1048576}
Titles == {NoTitle, SomeTitle(<<"c", "l", "i", "p">>)}
Regions == {"us-east-1", "eu-west-1"}

UploadDatas(filenames, filesizes, streams, titles, regions) ==
    [filename : filenames, filesize : filesizes, stream : streams,
     title : titles, upload_region : regions]

InitWith(streams) ==
    /\ pc = [a \in Attempts |-> "idle"]
    /\ upload_data = [a \in Attempts |-> NoData]
    /\ upload_creds = [a \in Attempts |-> NoCreds]
    /\ req_datetime = [a \in Attempts |-> NoInstant]
    /\ headers = [a \in Attempts |-> <<>>]
    /\ hash = [a \in Attempts |-> <<>>]
    /\ outcome = [a \in Attempts |-> NoOutcome]
    /\ calls = [a \in Attempts |-> <<>>]
    /\ body = [a \in Attempts |-> [bytes |-> <<>>, done |-> FALSE]]
    /\ srcops = [a \in Attempts |-> [seeks |-> 0, reads |-> 0]]
    /\ stream \in streams
    /\ issued = <<>>
    /\ running = 0
    /\ signer = <<>>
    /\ backend = NoUpload
    /\ client = DefaultClient
    /\ fetch = NoFetch

\* One attempt, on one stream of any kind, content length and read position
Init ==
    InitWith({[s \in Sources |-> IF s = 1 THEN o ELSE [kind |-> "BytesIO", len |-> 0, pos |-> 0, greedy |-> -1]] :
              o \in StreamObjects(Kinds, Lens) \cup GreedyObjects(Lens)})

Inputs == UploadDatas(Filenames, Filesizes, {1}, Titles, Regions)

Next ==
    \/ \E ud \in Inputs : Call(1, ud)
    \/ \E status \in Statuses : ShortcodeResponse(1, status)
    \/ \E status \in Statuses, now \in Instants : MetadataResponse(1, status, now)
    \/ DigestRead(1)
    \/ Sign(1)
    \/ Transfer(1)
    \/ \E status \in Statuses : PutResponse(1, status)
    \/ \E status \in Statuses : TranscodeResponse(1, status)
    \/ Cancel(1)

Spec == Init /\ [][Next]_vars

\* Two attempts on one Client, on the same stream or on two streams; stream 1
\* may be longer than one transport chunk
ConcLens == {1, TransferChunk + 1}

InitConc ==
    InitWith({[s \in Sources |->
                  IF s = 1 THEN [kind |-> "BytesIO", len |-> l, pos |-> 0, greedy |-> -1]
                  ELSE [kind |-> k, len |-> DigestChunk + 1, pos |-> 0, greedy |-> -1]] :
              l \in ConcLens, k \in {"BufferedReader", "StreamReader"}})

ConcInputs == UploadDatas({Mp4Name}, {1}, Sources, {NoTitle}, {"us-east-1"})

ConcInstants == {i \in Instants : i.sec = 0 /\ i.usec = 0}

NextConc ==
    \/ \E a \in Attempts, ud \in ConcInputs : Call(a, ud)
    \/ \E a \in Attempts, status \in Statuses : ShortcodeResponse(a, status)
    \/ \E a \in Attempts, status \in Statuses, now \in ConcInstants :
           MetadataResponse(a, status, now)
    \/ \E a \in Attempts : DigestRead(a)
    \/ \E a \in Attempts : Sign(a)
    \/ \E a \in Attempts : Transfer(a)
    \/ \E a \in Attempts, status \in Statuses : PutResponse(a, status)
    \/ \E a \in Attempts, status \in Statuses : TranscodeResponse(a, status)
    \/ \E a \in Attempts : Cancel(a)

SpecConc == InitConc /\ [][NextConc]_vars

\* One attempt, with the scheduling the event loop and the network give it:
\* a coroutine that can run is run (DigestRead, Sign), the transport keeps
\* sending the body (Transfer), and every call in flight is answered with a
\* response or an error.  Nothing obliges the caller to call or to cancel.
\* The streams start at offset 0 and are of every kind and length; the file is
\* an accepted or a refused one; a call is answered with success or an error.
InitLive ==
    InitWith({[s \in Sources |-> IF s = 1 THEN o ELSE [kind |-> "BytesIO", len |-> 0, pos |-> 0, greedy |-> -1]] :
              o \in {x \in StreamObjects(Kinds, Lens) : x.pos = 0} \cup GreedyObjects(Lens)})

LiveInputs ==
    UploadDatas({Mp4Name, <<"v", ".", "a", "v", "i">>}, {1}, {1}, {NoTitle}, {"us-east-1"})

LiveStatuses == {200, 500}

NextLive ==
    \/ \E ud \in LiveInputs : Call(1, ud)
    \/ \E status \in LiveStatuses : ShortcodeResponse(1, status)
    \/ \E status \in LiveStatuses, now \in ConcInstants : MetadataResponse(1, status, now)
    \/ DigestRead(1)
    \/ Sign(1)
    \/ Transfer(1)
    \/ \E status \in LiveStatuses : PutResponse(1, status)
    \/ \E status \in LiveStatuses : TranscodeResponse(1, status)
    \/ Cancel(1)

\* WF_vars(Sign(1)) written out: Sign(1) is enabled exactly when the attempt
\* is at "sign" and holds the event loop, and every Sign step leaves "sign"
SignFairness ==
    \/ []<>(~(pc[1] = "sign" /\ running = 1))
    \/ []<><<Sign(1)>>_vars

Fairness ==
    /\ WF_vars(\E status \in LiveStatuses : ShortcodeResponse(1, status))
    /\ WF_vars(\E status \in LiveStatuses, now \in ConcInstants : MetadataResponse(1, status, now))
    /\ WF_vars(DigestRead(1))
    /\ SignFairness
    /\ WF_vars(Transfer(1))
    /\ WF_vars(\E status \in LiveStatuses : PutResponse(1, status))
    /\ WF_vars(\E status \in LiveStatuses : TranscodeResponse(1, status))

SpecLive == InitLive /\ [][NextLive]_vars /\ Fairness

-----------------------------------------------------------------------------
(* Direct calls of Client.__streamable_aws_authorization *)

\* the state of upload_to_streamable, which a call of the signer leaves alone
workflow == <<pc, upload_data, upload_creds, req_datetime, headers, hash, outcome,
              calls, body, srcops, stream, issued, running>>

\* header entries a caller may pass: names in upper, lower and mixed case, two
\* names that differ in case only, a value with surrounding whitespace
SignerEntries ==
    { <<"X-AMZ-Content-SHA256", UnsignedPayload>>,
      <<"Content-Type", Str("application/octet-stream")>>,
      <<"host", [t |-> "str", s |-> Netloc(STREAMABLE_AWS_BUCKET_URL), ws |-> TRUE]>>,
      <<"Host", Str(Netloc(STREAMABLE_API_URL))>> }

\* the dicts that hold a set of entries: one per insertion order
RECURSIVE DictsOf(_)
DictsOf(entries) ==
    IF entries = {} THEN {<<>>}
    ELSE UNION {{Append(d, e) : d \in DictsOf(entries \ {e})} : e \in entries}

Items(d) == {d[i] : i \in 1..Len(d)}

SignerHeaders == UNION {DictsOf(es) : es \in SUBSET SignerEntries}
SignerMethods == {"PUT", "put", "FETCH"}
SignerQueries == {<<>>, << <<"", "">> >>, << <<"b", "">>, <<"a", "">> >>}
SignerCredentials == {MintCredential(n).credentials : n \in {1, 2}}
SignerInstants == {i \in Instants : i.sec = 0 /\ i.usec = 0}

SignerResult(c) ==
    StreamableAwsAuthorization(c.method, c.headers, c.req_time, c.credential,
                               c.uri, c.query, c.region, c.service)

\* a caller calls the signer
SignerCall(method, hdrs, req_time, credential, query, region) ==
    /\ signer = <<>>
    /\ LET c == [method |-> method, headers |-> hdrs, req_time |-> req_time,
                 credential |-> credential, uri |-> <<"/upload/", 1>>,
                 query |-> query, region |-> region, service |-> "s3"]
       IN  signer' = <<[args |-> c, result |-> SignerResult(c)]>>
    /\ UNCHANGED <<workflow, backend, client, fetch>>

\* and calls it again, with the same entries inserted into the header map in
\* another order and every other argument the same
SignerCallAgain(hdrs) ==
    /\ Len(signer) = 1
    /\ hdrs \in DictsOf(Items(signer[1].args.headers))
    /\ LET c == [signer[1].args EXCEPT !.headers = hdrs]
       IN  signer' = Append(signer, [args |-> c, result |-> SignerResult(c)])
    /\ UNCHANGED <<workflow, backend, client, fetch>>

InitSigner ==
    InitWith({[s \in Sources |-> [kind |-> "BytesIO", len |-> 0, pos |-> 0, greedy |-> -1]]})

NextSigner ==
    \/ \E method \in SignerMethods, hdrs \in SignerHeaders, req_time \in SignerInstants,
          credential \in SignerCredentials, query \in SignerQueries, region \in Regions :
           SignerCall(method, hdrs, req_time, credential, query, region)
    \/ \E hdrs \in SignerHeaders : SignerCallAgain(hdrs)

SpecSigner == InitSigner /\ [][NextSigner]_vars

-----------------------------------------------------------------------------
(* The upload operations of the other backends: upload_to_juststreamlive,
   upload_to_mixture, upload_to_streamff, upload_to_streamja *)

JUSTSTREAMLIVE_UPLOAD_MAX_SIZE == 200 * 1048576
MIXTURE_UPLOAD_MAX_SIZE == 512 * 1048576
STREAMFF_UPLOAD_MAX_SIZE == 200 * 1048576
STREAMJA_UPLOAD_MAX_SIZE == 30 * 1048576

Backends == {"juststreamlive", "mixture", "streamff", "streamja"}

MaxSize(op) ==
    CASE op = "juststreamlive" -> JUSTSTREAMLIVE_UPLOAD_MAX_SIZE
      [] op = "mixture" -> MIXTURE_UPLOAD_MAX_SIZE
      [] op = "streamff" -> STREAMFF_UPLOAD_MAX_SIZE
      [] op = "streamja" -> STREAMJA_UPLOAD_MAX_SIZE

\* the two asserts of an upload operation: file type, then file size
Accepts(op, ud) ==
    /\ IF op = "juststreamlive"
       THEN EndsWithAny(ud.filename, {<<".", "m", "k", "v">>, <<".", "m", "p", "4">>})
       ELSE EndsWith(ud.filename, <<".", "m", "p", "4">>)
    /\ ud.filesize <= MaxSize(op)

\* the request that fetches the upload identifier of a backend
IdRequest(op) ==
    CASE op = "mixture" -> [method |-> "GET", endpoint |-> "", status |-> 0]
      [] op = "streamff" -> [method |-> "POST", endpoint |-> "api/videos/generate-link", status |-> 0]
      [] op = "streamja" -> [method |-> "POST", endpoint |-> "shortId.php", status |-> 0]

\* the request that uploads the file to a backend
UploadRequest(op) ==
    CASE op = "juststreamlive" -> [method |-> "POST", endpoint |-> "videos/upload", status |-> 0]
      [] op = "mixture" -> [method |-> "POST", endpoint |-> "upload_file.php", status |-> 0]
      [] op = "streamff" -> [method |-> "POST", endpoint |-> "api/videos/upload/", status |-> 0]
      [] op = "streamja" -> [method |-> "POST", endpoint |-> "upload.php", status |-> 0]

AssertionFailed == Raised("AssertionError", 0, "")

\* the operation is called: the code up to its first await
BackendCall(op, ud) ==
    /\ backend.op = "none"
    /\ backend' =
           LET b == [backend EXCEPT !.op = op, !.data = ud]
           IN  IF op \in {"streamff", "streamja"}
               THEN [b EXCEPT !.pc = "await_id", !.calls = <<IdRequest(op)>>]
               ELSE IF ~Accepts(op, ud)
               THEN [b EXCEPT !.pc = "failed", !.outcome = AssertionFailed]
               ELSE IF op = "mixture"
               THEN [b EXCEPT !.pc = "await_id", !.calls = <<IdRequest(op)>>]
               ELSE [b EXCEPT !.pc = "await_upload", !.calls = <<UploadRequest(op)>>]
    /\ UNCHANGED <<workflow, signer, client, fetch>>

\* the identifier request is answered; wellformed says the body holds the
\* identifier (mixture: the link_id input tag; streamja: no "error" key)
IdResponse(status, wellformed) ==
    /\ backend.pc = "await_id"
    /\ backend' =
           LET b == [backend EXCEPT !.calls = Complete(@, status)]
           IN  IF RaiseForStatus(status)
               THEN [b EXCEPT !.pc = "failed", !.outcome = HttpError(status)]
               ELSE IF backend.op \in {"mixture", "streamja"} /\ ~wellformed
               THEN [b EXCEPT !.pc = "failed", !.outcome = AssertionFailed]
               ELSE IF backend.op \in {"streamff", "streamja"} /\ ~Accepts(backend.op, backend.data)
               THEN [b EXCEPT !.pc = "failed", !.outcome = AssertionFailed]
               ELSE [b EXCEPT !.pc = "await_upload",
                              !.calls = Append(@, UploadRequest(backend.op))]
    /\ UNCHANGED <<workflow, signer, client, fetch>>

\* the upload request is answered; wellformed says the body is the expected
\* one (streamja: "status" is 1)
UploadResponse(status, wellformed) ==
    /\ backend.pc = "await_upload"
    /\ backend' =
           LET b == [backend EXCEPT !.calls = Complete(@, status)]
           IN  IF RaiseForStatus(status)
               THEN [b EXCEPT !.pc = "failed", !.outcome = HttpError(status)]
               ELSE IF backend.op = "streamja" /\ ~wellformed
               THEN [b EXCEPT !.pc = "failed", !.outcome = AssertionFailed]
               ELSE [b EXCEPT !.pc = "done", !.outcome = Returned([id |-> backend.op])]
    /\ UNCHANGED <<workflow, signer, client, fetch>>

BackendInputs(op) ==
    [filename : Filenames, filesize : {1, MaxSize(op), MaxSize(op) + 1}]

InitBackends ==
    InitWith({[s \in Sources |-> [kind |-> "BytesIO", len |-> 0, pos |-> 0, greedy |-> -1]]})

NextBackends ==
    \/ \E op \in Backends : \E ud \in BackendInputs(op) : BackendCall(op, ud)
    \/ \E status \in Statuses, wellformed \in BOOLEAN : IdResponse(status, wellformed)
    \/ \E status \in Statuses, wellformed \in BOOLEAN : UploadResponse(status, wellformed)

SpecBackends == InitBackends /\ [][NextBackends]_vars

-----------------------------------------------------------------------------
(* Constructing a Client, then get_<backend>_video_stream on it *)

MIXTURE_URL == "https://mixture.gg"
STREAMFF_URL == "https://streamff.com"
STREAMJA_URL == "https://streamja.com"

StreamBackends == {"mixture", "streamable", "streamff", "streamja"}

\* the page or API request of get_<backend>_video_url
UrlRequest(resolver, video_id) ==
    CASE resolver = "mixture" -> [base |-> MIXTURE_URL, endpoint |-> "v/", id |-> video_id]
      [] resolver = "streamable" -> [base |-> STREAMABLE_URL, endpoint |-> "", id |-> video_id]
      [] resolver = "streamff" -> [base |-> STREAMFF_URL, endpoint |-> "api/videos/", id |-> video_id]
      [] resolver = "streamja" -> [base |-> STREAMJA_URL, endpoint |-> "", id |-> video_id]

\* the get_<backend>_video_url that get_<backend>_video_stream awaits
Resolver(op) ==
    CASE op = "mixture" -> "mixture"
      [] op = "streamable" -> "streamff"
      [] op = "streamff" -> "streamff"
      [] op = "streamja" -> "streamja"

\* what a resolver makes of a successful response.  page is what the server
\* sent: "link" (the page or JSON names the video), "nolink" (it does not).
\* get_mixture_video_url and get_streamja_video_url hand the method res.text,
\* not the text, to BeautifulSoup, which may reject it; get_streamff_video_url
\* prefixes the link with STREAMFF_URL, the others return the link as it is.
Resolved(resolver, page, video_id) ==
    IF page = "nolink"
    THEN {[error |-> IF resolver = "streamff" THEN "KeyError" ELSE "AssertionError",
           url |-> [base |-> "", endpoint |-> "", id |-> 0]]}
    ELSE {[error |-> "",
           url |-> [base |-> IF resolver = "streamff" THEN STREAMFF_URL ELSE "https://cdn.example",
                    endpoint |-> "video/", id |-> video_id]]}
         \cup IF resolver \in {"mixture", "streamja"}
              THEN {[error |-> "TypeError", url |-> [base |-> "", endpoint |-> "", id |-> 0]]}
              ELSE {}

\* a GET on the session: the session's default headers go with it
SessionGet(url) == [method |-> "GET", url |-> url, headers |-> client.headers, status |-> 0]

\* Client(session, user_agent)
Construct(session, user_agent) ==
    /\ client.state = "none"
    /\ client' = NewClient(session, user_agent)
    /\ UNCHANGED <<workflow, signer, backend, fetch>>

\* get_<op>_video_stream(video_id) up to its first await, inside the resolver
StreamCall(op, video_id) ==
    /\ client.state = "ready"
    /\ fetch.op = "none"
    /\ fetch' = [fetch EXCEPT !.op = op, !.video_id = video_id, !.pc = "await_url",
                              !.calls = <<SessionGet(UrlRequest(Resolver(op), video_id))>>]
    /\ UNCHANGED <<workflow, signer, backend, client>>

\* the resolver's request is answered; then the stream is requested
UrlResponse(status, page) ==
    /\ fetch.pc = "await_url"
    /\ \E r \in Resolved(Resolver(fetch.op), page, fetch.video_id) :
           fetch' =
               LET f == [fetch EXCEPT !.calls = Complete(@, status)]
               IN  IF RaiseForStatus(status)
                   THEN [f EXCEPT !.pc = "failed", !.outcome = HttpError(status)]
                   ELSE IF r.error # ""
                   THEN [f EXCEPT !.pc = "failed", !.outcome = Raised(r.error, 0, "")]
                   ELSE [f EXCEPT !.pc = "await_stream", !.calls = Append(@, SessionGet(r.url))]
    /\ UNCHANGED <<workflow, signer, backend, client>>

\* the stream request is answered: res.content is returned
StreamResponse(status) ==
    /\ fetch.pc = "await_stream"
    /\ fetch' =
           LET f == [fetch EXCEPT !.calls = Complete(@, status)]
           IN  IF RaiseForStatus(status)
               THEN [f EXCEPT !.pc = "failed", !.outcome = HttpError(status)]
               ELSE [f EXCEPT !.pc = "done",
                              !.outcome = Returned([content |-> fetch.calls[2].url])]
    /\ UNCHANGED <<workflow, signer, backend, client>>

\* sessions handed to Client(): none, one without headers, one with a
\* User-Agent (spelled either way), one with another header as well
CallerAgent == Str("caller/1.0")

SessionArgs ==
    { None, Some(<<>>),
      Some(<< <<"User-Agent", CallerAgent>> >>),
      Some(<< <<"user-agent", CallerAgent>> >>),
      Some(<< <<"Content-Type", Str("text/plain")>>, <<"User-Agent", CallerAgent>> >>) }

UserAgentArgs == {None, Some(Str("argument/2.0"))}

VideoIds == {1, 2}

InitClient ==
    /\ pc = [a \in Attempts |-> "idle"]
    /\ upload_data = [a \in Attempts |-> NoData]
    /\ upload_creds = [a \in Attempts |-> NoCreds]
    /\ req_datetime = [a \in Attempts |-> NoInstant]
    /\ headers = [a \in Attempts |-> <<>>]
    /\ hash = [a \in Attempts |-> <<>>]
    /\ outcome = [a \in Attempts |-> NoOutcome]
    /\ calls = [a \in Attempts |-> <<>>]
    /\ body = [a \in Attempts |-> [bytes |-> <<>>, done |-> FALSE]]
    /\ srcops = [a \in Attempts |-> [seeks |-> 0, reads |-> 0]]
    /\ stream = [s \in Sources |-> [kind |-> "BytesIO", len |-> 0, pos |-> 0, greedy |-> -1]]
    /\ issued = <<>>
    /\ running = 0
    /\ signer = <<>>
    /\ backend = NoUpload
    /\ client = NoClient
    /\ fetch = NoFetch

NextClient ==
    \/ \E session \in SessionArgs, user_agent \in UserAgentArgs : Construct(session, user_agent)
    \/ \E op \in StreamBackends, video_id \in VideoIds : StreamCall(op, video_id)
    \/ \E status \in Statuses, page \in {"link", "nolink"} : UrlResponse(status, page)
    \/ \E status \in Statuses : StreamResponse(status)

SpecClient == InitClient /\ [][NextClient]_vars

-----------------------------------------------------------------------------
(* Properties of one attempt *)

Success(status) == status >= 200 /\ status < 400
Failure(status) == status >= 400

EndpointOrder == <<"shortcode", "videos", "upload", "transcode">>
MethodOrder == <<"GET", "PUT", "PUT", "POST">>

Stage(p) ==
    CASE p = "idle" -> 0
      [] p = "await_shortcode" -> 1
      [] p = "await_metadata" -> 2
      [] p = "hashing" -> 3
      [] p = "sign" -> 4
      [] p = "await_put" -> 5
      [] p = "await_transcode" -> 6
      [] OTHER -> 7

\* C1: the calls of an attempt are GET shortcode, PUT videos/{shortcode},
\* PUT upload/{shortcode}, POST transcode/{shortcode} in this order, each
\* issued only after the one before it completed with a success status, and
\* the attempt never steps back to an earlier stage.
C1_CallOrder ==
    /\ [](\A a \in Attempts :
            /\ Len(calls[a]) <= 4
            /\ \A i \in 1..Len(calls[a]) :
                 /\ calls[a][i].url.endpoint = EndpointOrder[i]
                 /\ calls[a][i].method = MethodOrder[i]
                 /\ i > 1 => Success(calls[a][i - 1].status))
    /\ [][\A a \in Attempts :
            /\ Stage(pc'[a]) >= Stage(pc[a])
            /\ Len(calls'[a]) >= Len(calls[a])]_vars

C1_Witness ==
    /\ pc[1] = "done"
    /\ Len(calls[1]) = 4
    /\ \A i \in 1..4 : calls[1][i].status = 200

\* C2: a filename that ends with neither .mkv nor .mp4, or a filesize above
\* 250 MiB, fails with the assertion error and no call at all; a filesize of
\* exactly 250 MiB with an accepted name is let through to the first call.
C2_ValidationBeforeCalls ==
    \A a \in Attempts :
        pc[a] # "idle" =>
            LET ud == upload_data[a]
                n == Len(ud.filename)
                ext == IF n >= 4 THEN SubSeq(ud.filename, n - 3, n) ELSE <<>>
                badName == ext # <<".", "m", "k", "v">> /\ ext # <<".", "m", "p", "4">>
                tooBig == ud.filesize > 250 * 1048576
            IN  IF badName \/ tooBig
                THEN /\ pc[a] = "failed"
                     /\ outcome[a].kind = "raised"
                     /\ outcome[a].error = "AssertionError"
                     /\ calls[a] = <<>>
                ELSE /\ calls[a] # <<>>
                     /\ calls[a][1].url.endpoint = "shortcode"

C2_Witness ==
    /\ pc[1] = "failed"
    /\ upload_data[1].filename = <<"v", ".", "a", "v", "i">>
    /\ upload_data[1].filesize = 1
    /\ outcome[1].kind = "raised"
    /\ calls[1] = <<>>

\* C3: when the signed PUT is answered with a non-success status, the attempt
\* has failed with an error that carries that status, the transcode call is
\* not issued, and nothing is returned.
C3_TransferFailureStops ==
    \A a \in Attempts :
        (Len(calls[a]) >= 3 /\ Failure(calls[a][3].status)) =>
            /\ pc[a] = "failed"
            /\ outcome[a].kind = "raised"
            /\ outcome[a].error = "ClientResponseError"
            /\ outcome[a].status = calls[a][3].status
            /\ Len(calls[a]) = 3

C3_Witness ==
    /\ Len(calls[1]) = 3
    /\ calls[1][3].url.endpoint = "upload"
    /\ calls[1][3].status = 403
    /\ outcome[1].kind = "raised"
    /\ outcome[1].status = 403

\* C4: when the shortcode call is answered with a non-success status no other
\* call is issued; when the metadata call is, neither the signed PUT nor the
\* transcode call is issued; the attempt has failed in both cases.
C4_EarlyFailureStops ==
    \A a \in Attempts :
        /\ (Len(calls[a]) >= 1 /\ Failure(calls[a][1].status)) =>
               (Len(calls[a]) = 1 /\ pc[a] = "failed" /\ outcome[a].kind = "raised")
        /\ (Len(calls[a]) >= 2 /\ Failure(calls[a][2].status)) =>
               (Len(calls[a]) = 2 /\ pc[a] = "failed" /\ outcome[a].kind = "raised")

C4_Witness ==
    /\ Len(calls[1]) = 2
    /\ calls[1][2].url.endpoint = "videos"
    /\ calls[1][2].status = 400
    /\ pc[1] = "failed"

\* C5: within one attempt no endpoint is called twice, whatever the responses.
C5_EachCallAtMostOnce ==
    \A a \in Attempts :
        \A i, j \in 1..Len(calls[a]) :
            i # j => calls[a][i].url.endpoint # calls[a][j].url.endpoint

C5_Witness ==
    /\ pc[1] = "failed"
    /\ Len(calls[1]) = 4
    /\ calls[1][4].status = 403

\* C6: on a seekable stream, whatever its read position was, the digest pass
\* has hashed the content from offset 0 to end-of-stream and left the read
\* position at 0; the body the signed PUT then reads from a stream no other
\* attempt uses is that same byte string.
C6_DigestThenSameBytes ==
    \A a \in Attempts :
        LET src == upload_data[a].stream
            whole == IF stream[src].len = 0 THEN <<>>
                     ELSE <<[src |-> src, lo |-> 0, hi |-> stream[src].len]>>
            alone == \A b \in Attempts \ {a} : upload_data[b].stream # src
        IN  (pc[a] \in {"sign", "await_put", "await_transcode", "done"}
             /\ stream[src].kind \in {"BytesIO", "BufferedReader"}) =>
                /\ hash[a] = whole
                /\ pc[a] = "sign" => stream[src].pos = 0
                /\ (alone /\ body[a].done) => body[a].bytes = hash[a]
                /\ (alone /\ pc[a] = "await_put") =>
                       body[a].bytes =
                           (IF stream[src].pos = 0 THEN <<>>
                            ELSE <<[src |-> src, lo |-> 0, hi |-> stream[src].pos]>>)

C6_Witness ==
    /\ pc[1] = "done"
    /\ stream[1].kind = "BufferedReader"
    /\ stream[1].len = DigestChunk + 1
    /\ srcops[1].reads = 3
    /\ body[1].bytes = <<[src |-> 1, lo |-> 0, hi |-> DigestChunk + 1]>>
    /\ hash[1] = body[1].bytes

\* C7: on a StreamReader the attempt's own code neither reads nor seeks the
\* stream, the signed PUT is still issued once the metadata call succeeded, and
\* it carries X-AMZ-Content-SHA256: UNSIGNED-PAYLOAD, which is also the payload
\* hash that was signed; the header carries a hex digest exactly when the
\* stream is a BytesIO or a BufferedReader.
C7_OneShotStreamUnsigned ==
    \A a \in Attempts :
        pc[a] # "idle" =>
            LET kind == stream[upload_data[a].stream].kind
                unsigned == [t |-> "str", s |-> "UNSIGNED-PAYLOAD", ws |-> FALSE]
            IN  /\ kind = "StreamReader" =>
                       /\ srcops[a] = [seeks |-> 0, reads |-> 0]
                       /\ pc[a] # "hashing"
                       /\ (pc[a] = "failed" /\ Len(calls[a]) = 2) =>
                              \/ Failure(calls[a][2].status)
                              \/ outcome[a].error = "CancelledError"
                /\ Len(calls[a]) >= 3 =>
                       LET h == calls[a][3].headers
                           sha == Get(h, "X-AMZ-Content-SHA256")
                           auth == Get(h, "Authorization")
                       IN  /\ (kind = "StreamReader") <=> (sha = unsigned)
                           /\ (kind # "StreamReader") <=> (sha.t = "sha256hex")
                           /\ auth.signature.msg.request_hash.of.payload_hash = sha

C7_Witness ==
    /\ stream[1].kind = "StreamReader"
    /\ pc[1] = "done"
    /\ srcops[1] = [seeks |-> 0, reads |-> 0]
    /\ body[1].bytes # <<>>
    /\ Get(calls[1][3].headers, "X-AMZ-Content-SHA256") = UnsignedPayload

\* C8: in every signed PUT the X-AMZ-Date header, the timestamp of the string
\* to sign, the date of the credential scope (in the Authorization value and in
\* the string to sign) and the date the signing key is derived from are
\* renderings of one instant, the attempt's req_datetime.
C8_OneInstant ==
    \A a \in Attempts :
        Len(calls[a]) >= 3 =>
            LET h == calls[a][3].headers
                auth == Get(h, "Authorization")
                sts == auth.signature.msg
                key_date == auth.signature.key.key.key.key
            IN  \E i \in Instants :
                    /\ i = req_datetime[a]
                    /\ Get(h, "X-AMZ-Date") = [t |-> "amzdate", day |-> i.day, sec |-> i.sec]
                    /\ sts.timestamp = [t |-> "amzdate", day |-> i.day, sec |-> i.sec]
                    /\ Get(sts.request_hash.of.headers, "x-amz-date") = sts.timestamp
                    /\ auth.credential_scope.datestamp = [t |-> "datestamp", day |-> i.day]
                    /\ sts.credential_scope.datestamp = [t |-> "datestamp", day |-> i.day]
                    /\ key_date.msg = [t |-> "datestamp", day |-> i.day]

C8_Witness ==
    /\ Len(calls[1]) >= 3
    /\ req_datetime[1] = [day |-> 1, sec |-> 24 * 60 * 60 - 1, usec |-> 1000000 - 1]
    /\ Get(calls[1][3].headers, "X-AMZ-Date") = AmzDate(req_datetime[1])

-----------------------------------------------------------------------------
(* Properties of two concurrent attempts *)

\* the shortcodes the service minted for attempt a
MintedFor(a) == {n \in 1..Len(issued) : issued[n] = a}

\* C9: under every interleaving, each attempt's metadata call, signed PUT and
\* transcode call name a shortcode minted for that attempt, the PUT carries the
\* session token, access key and secret minted with it, the transcode call its
\* transcoder token, and the result is for that shortcode; with a stream of its
\* own, the digest that is signed and the body that is sent are read from that
\* stream only and are the same bytes.
C9_AttemptLocalCredentials ==
    \A a \in Attempts :
        LET src == upload_data[a].stream
            alone == \A b \in Attempts \ {a} : upload_data[b].stream # src
        IN  /\ \A i \in 2..Len(calls[a]) :
                 /\ calls[a][i].url.shortcode \in MintedFor(a)
                 /\ calls[a][i].url.shortcode = calls[a][2].url.shortcode
            /\ Len(calls[a]) >= 3 =>
                 LET n == calls[a][2].url.shortcode
                     h == calls[a][3].headers
                     auth == Get(h, "Authorization")
                     sha == Get(h, "X-AMZ-Content-SHA256")
                 IN  /\ Get(h, "X-AMZ-Security-Token").v = <<"SESSION", n>>
                     /\ auth.accessKeyId = <<"AKID", n>>
                     /\ auth.signature.key.key.key.key.key.secret = <<"SECRET", n>>
                     /\ auth.signature.msg.request_hash.of.uri = <<"/upload/", n>>
                     /\ auth.signature.msg.request_hash.of.payload_hash = sha
                     /\ auth.signature.msg.timestamp.day = req_datetime[a].day
                     /\ (alone /\ sha.t = "sha256hex") =>
                            /\ \A k \in 1..Len(sha.of) : sha.of[k].src = src
                            /\ body[a].done => body[a].bytes = sha.of
                     /\ alone => \A k \in 1..Len(body[a].bytes) : body[a].bytes[k].src = src
            /\ Len(calls[a]) >= 4 =>
                 LET n == calls[a][2].url.shortcode
                 IN  /\ calls[a][4].payload.shortcode = n
                     /\ calls[a][4].payload.token = <<"TOKEN", n>>
            /\ pc[a] = "done" =>
                 /\ outcome[a].kind = "returned"
                 /\ outcome[a].value.shortcode = calls[a][2].url.shortcode
                 /\ outcome[a].value.shortcode \in MintedFor(a)

C9_Witness ==
    /\ pc[1] = "done" /\ pc[2] = "done"
    /\ upload_data[1].stream = 1 /\ upload_data[2].stream = 2
    /\ stream[1].len = TransferChunk + 1
    /\ issued = <<2, 1>>
    /\ outcome[1].value.shortcode = 2
    /\ outcome[2].value.shortcode = 1
    /\ body[1].bytes = <<[src |-> 1, lo |-> 0, hi |-> TransferChunk + 1]>>

\* C10: two attempts that share one seekable stream can interleave so that the
\* body an attempt sent differs from the bytes its signed digest covers; an
\* attempt's body differs from its digest only when another attempt has used
\* the same stream.
C10_MismatchOnlyWhenShared ==
    \A a \in Attempts :
        (Len(calls[a]) >= 3 /\ body[a].done
         /\ Get(calls[a][3].headers, "X-AMZ-Content-SHA256").t = "sha256hex"
         /\ body[a].bytes # Get(calls[a][3].headers, "X-AMZ-Content-SHA256").of) =>
            \E b \in Attempts \ {a} :
                /\ upload_data[b].stream = upload_data[a].stream
                /\ srcops[b].seeks > 0 \/ body[b].bytes # <<>>

\* attempt 2's digest pass rewinds the shared stream while the transport is in
\* the middle of attempt 1's body: attempt 1 sends the first chunk twice
C10_Witness ==
    /\ upload_data[1].stream = 1 /\ upload_data[2].stream = 1
    /\ stream[1].kind = "BytesIO"
    /\ pc[1] = "await_put" /\ body[1].done
    /\ Get(calls[1][3].headers, "X-AMZ-Content-SHA256").of =
           <<[src |-> 1, lo |-> 0, hi |-> TransferChunk + 1]>>
    /\ body[1].bytes = <<[src |-> 1, lo |-> 0, hi |-> TransferChunk],
                         [src |-> 1, lo |-> 0, hi |-> TransferChunk + 1]>>

\* C11: when the caller cancels an attempt while one of its network calls is
\* in flight, that call is the attempt's last (no later call is issued), the
\* attempt has ended by raising CancelledError to the caller, and it returned
\* no result.
C11_CancelPropagates ==
    \A a \in Attempts :
        \A i \in 1..Len(calls[a]) :
            calls[a][i].status = Aborted =>
                /\ i = Len(calls[a])
                /\ pc[a] = "failed"
                /\ outcome[a].kind = "raised"
                /\ outcome[a].error = "CancelledError"

\* cancelled while the transport was part-way through the body of the signed PUT
C11_Witness ==
    /\ pc[1] = "failed"
    /\ outcome[1].kind = "raised"
    /\ outcome[1].error = "CancelledError"
    /\ Len(calls[1]) = 3
    /\ calls[1][3].status = Aborted
    /\ body[1].bytes # <<>>
    /\ ~body[1].done

\* the state an attempt failed in, read off its last call: validation when it
\* issued none, else the credential call, the signed transfer or the activation
FailedIn(a) ==
    IF calls[a] = <<>> THEN "validation"
    ELSE CASE calls[a][Len(calls[a])].url.endpoint = "shortcode" -> "credential"
           [] calls[a][Len(calls[a])].url.endpoint = "upload" -> "transfer"
           [] calls[a][Len(calls[a])].url.endpoint = "transcode" -> "activation"
           [] OTHER -> "registration"

\* C12: the kind of the error a failed upload reports identifies the state it
\* failed in: two uploads that failed in different states among validation,
\* credential, transfer and activation report errors of different kinds, so an
\* activation failure has another kind than a transfer failure.
C12_KindIdentifiesState ==
    \A a, b \in Attempts :
        ( /\ pc[a] = "failed" /\ pc[b] = "failed"
          /\ outcome[a].error # "CancelledError"
          /\ outcome[b].error # "CancelledError"
          /\ {FailedIn(a), FailedIn(b)} \subseteq
                 {"validation", "credential", "transfer", "activation"}
          /\ FailedIn(a) # FailedIn(b) )
        => outcome[a].error # outcome[b].error

-----------------------------------------------------------------------------
(* Properties of the signer *)

\* C13: two calls of the signer whose header maps hold the same name/value
\* entries, inserted in any two orders, and whose other arguments are equal
\* give the same outcome: the same authorization value (scope, signed-header
\* list and signature over the same canonical headers) or the same error.
C13_InsertionOrderIrrelevant ==
    Len(signer) = 2 => signer[2].result = signer[1].result

\* three entries inserted in two different orders, and a value was returned
C13_Witness ==
    /\ Len(signer) = 2
    /\ signer[1].args.headers # signer[2].args.headers
    /\ Len(signer[1].args.headers) >= 3
    /\ signer[2].result.error = ""
    /\ signer[2].result.value.signed_headers # <<>>

\* the canonical request and the canonical headers signed by a call that returned
SignedRequest(c) == c.result.value.signature.msg.request_hash.of

\* C14: for every header map, mixed-case names included, the canonical headers
\* are the entries with each name lower-cased and each value stripped, ordered
\* by the lower-cased name, and the signed-header list is those lower-cased
\* names in the same order.
C14_CanonicalHeaders ==
    \A i \in 1..Len(signer) :
        signer[i].result.error = "" =>
            LET given == Items(signer[i].args.headers)
                ch == SignedRequest(signer[i]).headers
            IN  /\ {ch[j][1] : j \in 1..Len(ch)} = {Lower(e[1]) : e \in given}
                /\ \A j \in 1..Len(ch) :
                       \E e \in given : Lower(e[1]) = ch[j][1] /\ Strip(e[2]) = ch[j][2]
                /\ \A j, k \in 1..Len(ch) : j < k => Rank(ch[j][1]) < Rank(ch[k][1])
                /\ SignedRequest(signer[i]).signed_headers = [j \in 1..Len(ch) |-> ch[j][1]]
                /\ signer[i].result.value.signed_headers = [j \in 1..Len(ch) |-> ch[j][1]]

\* C15: the canonical query string has one key=value pair per entry of the
\* query map, each key and value percent-encoded (the keys and values used
\* here need no escaping), the pairs sorted by encoded key and joined with '&';
\* the empty map gives the empty string.
C15_CanonicalQuery ==
    \A i \in 1..Len(signer) :
        signer[i].result.error \in {"", "TypeError"} =>
            /\ signer[i].result.error = ""
            /\ LET given == Items(signer[i].args.query)
                   cq == SignedRequest(signer[i]).query
               IN  /\ Len(cq) = Cardinality(given)
                   /\ \A j \in 1..Len(cq) :
                          /\ cq[j][2] = "="
                          /\ <<cq[j][1], cq[j][3]>> \in given
                   /\ \A j, k \in 1..Len(cq) : j < k => Rank(cq[j][1]) < Rank(cq[k][1])
                   /\ signer[i].args.query = <<>> => cq = <<>>

\* the nine method names the signer accepts, as the claim lists them
StandardVerbs ==
    {"CONNECT", "DELETE", "GET", "HEAD", "OPTIONS", "PATCH", "POST", "PUT", "TRACE"}

\* C16: the signing key of every signature is the four-step HMAC chain keyed
\* first by "AWS4" + secret over the date stamp, then over the region, the
\* service and "aws4_request"; it depends on (secret, date stamp, region,
\* service) only: a second call with the same four values, whatever the order
\* of its header map, signs with the same key.
C16_SigningKeyChain ==
    /\ \A i \in 1..Len(signer) :
           signer[i].result.error = "" =>
               signer[i].result.value.signature.key =
                   [t |-> "hmac", msg |-> "aws4_request", key |->
                    [t |-> "hmac", msg |-> signer[i].args.service, key |->
                     [t |-> "hmac", msg |-> signer[i].args.region, key |->
                      [t |-> "hmac",
                       msg |-> [t |-> "datestamp", day |-> signer[i].args.req_time.day],
                       key |-> [t |-> "AWS4",
                                secret |-> signer[i].args.credential.secretAccessKey]]]]]
    /\ (Len(signer) = 2 /\ signer[1].result.error = "") =>
           signer[2].result.value.signature.key = signer[1].result.value.signature.key

\* two calls with the second credential, the later date and another region
C16_Witness ==
    /\ Len(signer) = 2
    /\ signer[1].result.error = ""
    /\ signer[2].result.error = ""
    /\ signer[1].args.headers # signer[2].args.headers
    /\ signer[1].args.credential = MintCredential(2).credentials
    /\ signer[1].args.req_time.day = MaxDay
    /\ signer[1].args.region = "eu-west-1"
    /\ signer[2].result.value.signature.key.key.key.key.key.secret = <<"SECRET", 2>>

\* C17: the signer raises, and gives no authorization value, whenever no name
\* of the header map lower-cases to x-amz-content-sha256 and whenever the
\* upper-cased method is none of the nine standard verbs.
C17_SignerRejects ==
    \A i \in 1..Len(signer) :
        ( \/ Upper(signer[i].args.method) \notin StandardVerbs
          \/ ~\E e \in Items(signer[i].args.headers) : Lower(e[1]) = "x-amz-content-sha256" )
        => /\ signer[i].result.error = "AssertionError"
           /\ signer[i].result.value = NoAuthorization

\* an accepted method, three headers, none of them the payload-hash header
C17_Witness ==
    /\ Len(signer) = 2
    /\ signer[1].result.error = "AssertionError"
    /\ signer[2].result.value = NoAuthorization
    /\ signer[1].args.method = "put"
    /\ Len(signer[1].args.headers) = 3
    /\ ~HasKey(signer[1].args.headers, "X-AMZ-Content-SHA256")

-----------------------------------------------------------------------------
(* Properties of the result record *)

\* url values a caller may hand to StreamableVideo(...): none, a foreign URL,
\* the URL of another shortcode
SuppliedUrls == {<<>>, <<"https://example.com", 1>>, <<"https://streamable.com", 2>>}

\* C18: an attempt that succeeded returned a result whose identifier is the
\* shortcode minted by its own credential call and whose URL is
\* https://streamable.com/<shortcode>; and a result record built from a
\* shortcode and any supplied url has the URL derived from the shortcode.
C18_ResultFromShortcode ==
    /\ \A a \in Attempts :
           pc[a] = "done" =>
               /\ outcome[a].kind = "returned"
               /\ outcome[a].value.shortcode \in MintedFor(a)
               /\ outcome[a].value.shortcode = calls[a][2].url.shortcode
               /\ outcome[a].value.url = <<"https://streamable.com", outcome[a].value.shortcode>>
    /\ \A shortcode \in 1..Cardinality(Attempts), url \in SuppliedUrls :
           StreamableVideo(shortcode, url) =
               [shortcode |-> shortcode, url |-> <<"https://streamable.com", shortcode>>]

\* both attempts succeeded, the second one holding the shortcode minted first
C18_Witness ==
    /\ pc[1] = "done"
    /\ pc[2] = "done"
    /\ outcome[2].value.shortcode = 1
    /\ outcome[1].value = [shortcode |-> 2, url |-> <<"https://streamable.com", 2>>]

-----------------------------------------------------------------------------
(* Properties of the other upload operations *)

\* C19: an upload operation of any backend that was called with a file of a
\* type or size the backend does not accept has issued no network call, not
\* even the call that fetches the upload identifier.
C19_ValidationBeforeAnyCall ==
    (backend.op \in Backends /\ ~Accepts(backend.op, backend.data)) =>
        backend.calls = <<>>

-----------------------------------------------------------------------------
(* Properties of the digest pass *)

\* the number of bytes of a byte string
RECURSIVE BLen(_)
BLen(bytes) == IF bytes = <<>> THEN 0 ELSE ChunkLen(Head(bytes)) + BLen(Tail(bytes))

\* the last read of the attempt's digest pass returned more than 4096 bytes:
\* the stream is that much further than the bytes fed to the hash
OversizeChunkRead(a) ==
    /\ pc[a] \in {"hashing", "failed"}
    /\ srcops[a].reads > 0
    /\ stream[upload_data[a].stream].pos - BLen(hash[a]) > DigestChunk

\* C20: when a read of 4096 bytes of the digest pass returns a longer chunk,
\* the attempt has failed at once with an I/O error: the chunk was not fed to
\* the hash (the hash never holds more than 4096 bytes per read), no digest and
\* no Authorization header were set, and neither the signed PUT nor the
\* activation was issued; the I/O error is raised in that case only.
C20_OversizeChunkFailsFast ==
    \A a \in Attempts :
        /\ BLen(hash[a]) <= DigestChunk * srcops[a].reads
        /\ OversizeChunkRead(a) =>
               /\ pc[a] = "failed"
               /\ outcome[a].kind = "raised"
               /\ outcome[a].error = "IOError"
               /\ ~HasKey(headers[a], "Authorization")
               /\ Get(headers[a], "X-AMZ-Content-SHA256") = UnsignedPayload
               /\ Len(calls[a]) = 2
               /\ \A i \in 1..Len(calls[a]) :
                      calls[a][i].url.endpoint \notin {"upload", "transcode"}
        /\ (outcome[a].kind = "raised" /\ outcome[a].error = "IOError") =>
               OversizeChunkRead(a)

\* the second read returned 4097 bytes, after a first chunk that was hashed
C20_Witness ==
    /\ pc[1] = "failed"
    /\ outcome[1].kind = "raised"
    /\ outcome[1].error = "IOError"
    /\ hash[1] = <<[src |-> 1, lo |-> 0, hi |-> DigestChunk]>>
    /\ stream[1].pos = 2 * DigestChunk + 1
    /\ srcops[1].reads = 2
    /\ Len(calls[1]) = 2

-----------------------------------------------------------------------------
(* Properties of what the calls of one attempt refer to *)

\* C21: within one attempt the metadata registration, the canonical URI that
\* is signed, the URL of the signed PUT and the activation call all name the
\* shortcode returned by the attempt's credential call; the metadata
\* registration and the activation call carry the caller's declared filesize;
\* the registered title is the caller's title, or the stem of the filename
\* when no title is given.
C21_SameObjectKey ==
    \A a \in Attempts :
        /\ Len(calls[a]) >= 2 =>
               /\ calls[a][2].url.shortcode \in MintedFor(a)
               /\ calls[a][2].url = [base |-> "https://ajax.streamable.com",
                                     endpoint |-> "videos",
                                     shortcode |-> upload_creds[a].shortcode]
               /\ calls[a][2].payload.original_name = upload_data[a].filename
               /\ calls[a][2].payload.original_size = upload_data[a].filesize
               /\ calls[a][2].payload.title =
                      IF upload_data[a].title.some THEN upload_data[a].title.v
                      ELSE Stem(upload_data[a].filename)
        /\ Len(calls[a]) >= 3 =>
               /\ calls[a][3].url = [base |-> "https://streamables-upload.s3.amazonaws.com",
                                     endpoint |-> "upload",
                                     shortcode |-> calls[a][2].url.shortcode]
               /\ Get(calls[a][3].headers, "Authorization").signature.msg.request_hash.of.uri
                      = <<"/upload/", calls[a][2].url.shortcode>>
        /\ Len(calls[a]) >= 4 =>
               /\ calls[a][4].url.endpoint = "transcode"
               /\ calls[a][4].url.shortcode = calls[a][2].url.shortcode
               /\ calls[a][4].payload.shortcode = calls[a][2].url.shortcode
               /\ calls[a][4].payload.size = upload_data[a].filesize
               /\ calls[a][4].payload.url =
                      <<"https://streamables-upload.s3.amazonaws.com", "upload",
                        calls[a][2].url.shortcode>>

\* v.mkv at the size limit, no title given, uploaded and activated: the
\* registered title is the stem "v"
C21_Witness ==
    /\ pc[1] = "done"
    /\ upload_data[1].filename = MkvName
    /\ ~upload_data[1].title.some
    /\ upload_data[1].filesize = STREAMABLE_UPLOAD_MAX_SIZE
    /\ calls[1][2].payload.title = <<"v">>
    /\ calls[1][4].payload.size = STREAMABLE_UPLOAD_MAX_SIZE

-----------------------------------------------------------------------------
(* Termination of one attempt *)

Terminal == {"done", "failed"}

\* C22: when every call in flight is eventually answered, the attempt, once
\* started, eventually is done or failed, and the digest read loop is
\* eventually left; an attempt is done exactly when it returned a result and
\* failed exactly when it raised; and once it is done or failed it issues no
\* further call and makes no further read or seek, and nothing reads or moves
\* its stream.
C22_Terminates ==
    /\ (pc[1] # "idle") ~> (pc[1] \in Terminal)
    /\ (pc[1] = "hashing") ~> (pc[1] # "hashing")
    /\ [](\A a \in Attempts :
              /\ (pc[a] = "done") <=> (outcome[a].kind = "returned")
              /\ (pc[a] = "failed") <=> (outcome[a].kind = "raised"))
    /\ [][\A a \in Attempts :
              pc[a] \in Terminal =>
                  /\ pc'[a] = pc[a]
                  /\ outcome'[a] = outcome[a]
                  /\ calls'[a] = calls[a]
                  /\ srcops'[a] = srcops[a]
                  /\ stream'[upload_data[a].stream] = stream[upload_data[a].stream]]_vars

\* a result was returned after a digest pass of four reads (4096, 4096 and 1
\* bytes, then end-of-stream) and a transfer that read the whole body
C22_Witness ==
    /\ pc[1] = "done"
    /\ outcome[1].kind = "returned"
    /\ srcops[1] = [seeks |-> 2, reads |-> 4]
    /\ stream[1].len = 2 * DigestChunk + 1
    /\ stream[1].pos = stream[1].len
    /\ body[1].done

\* the lower-cased names of the headers of d
Names(d) == {Lower(d[i][1]) : i \in 1..Len(d)}

\* the lower-cased names of the six headers of lines 541-548
SixHeaders ==
    {"host", "content-type", "x-amz-acl", "x-amz-content-sha256",
     "x-amz-security-token", "x-amz-date"}

\* C23 as stated: in every signed PUT the payload hash that was signed is the
\* X-AMZ-Content-SHA256 header transmitted, the signed headers are exactly the
\* headers transmitted other than Authorization, namely the six of the
\* operation, and Authorization is not among the signed headers.
C23_SignedIsAllTransmitted ==
    \A a \in Attempts :
        Len(calls[a]) >= 3 =>
            LET sent == Transmitted(calls[a][3].headers)
                auth == CIGet(sent, "Authorization")
                request == auth.signature.msg.request_hash.of
            IN  /\ request.payload_hash = CIGet(sent, "X-AMZ-Content-SHA256")
                /\ {request.signed_headers[i] : i \in 1..Len(request.signed_headers)}
                       = Names(sent) \ {"authorization"}
                /\ Names(sent) \ {"authorization"} = SixHeaders
                /\ \A i \in 1..Len(request.signed_headers) :
                       request.signed_headers[i] # "authorization"

\* C23: in every signed PUT the payload hash that was signed is the
\* X-AMZ-Content-SHA256 header transmitted; the signed headers, in the
\* canonical request and in the Authorization value, are exactly the six
\* headers the operation passes with the request other than Authorization, each
\* signed with the value transmitted; Authorization is not among them; and the
\* request goes out with the session's default headers as well (the User-Agent
\* that constructing the Client installs), which are not signed.
C23_SignedIsAllPassed ==
    \A a \in Attempts :
        Len(calls[a]) >= 3 =>
            LET passed == calls[a][3].headers
                sent == Transmitted(passed)
                auth == CIGet(sent, "Authorization")
                request == auth.signature.msg.request_hash.of
                signed == {request.signed_headers[i] : i \in 1..Len(request.signed_headers)}
            IN  /\ request.payload_hash = CIGet(sent, "X-AMZ-Content-SHA256")
                /\ signed = Names(passed) \ {"authorization"}
                /\ signed = SixHeaders
                /\ auth.signed_headers = request.signed_headers
                /\ \A i \in 1..Len(request.headers) :
                       request.headers[i][2] = CIGet(sent, request.headers[i][1])
                /\ "authorization" \notin signed
                /\ Names(sent) \ {"authorization"} = signed \cup Names(client.headers)
                /\ "user-agent" \in Names(sent) \ signed

\* a signed PUT of a seekable stream went out: digest and User-Agent on it
C23_Witness ==
    /\ pc[1] = "await_put"
    /\ stream[upload_data[1].stream].kind = "BytesIO"
    /\ CIGet(Transmitted(calls[1][3].headers), "X-AMZ-Content-SHA256").t = "sha256hex"
    /\ CIGet(Transmitted(calls[1][3].headers), "User-Agent") = DefaultUserAgent
    /\ Len(Transmitted(calls[1][3].headers)) = 8

-----------------------------------------------------------------------------
(* Properties of Client construction and of the video stream operations *)

\* the host of a backend, as the claim names the backends
OwnHost ==
    [b \in StreamBackends |->
        CASE b = "mixture" -> "https://mixture.gg"
          [] b = "streamable" -> "https://streamable.com"
          [] b = "streamff" -> "https://streamff.com"
          [] b = "streamja" -> "https://streamja.com"]

\* C24: the first request of every get_<backend>_video_stream is the request
\* of that backend's own URL resolver, sent to that backend's own host and
\* never to the host of another backend, and it names the video asked for.
C24_OwnResolver ==
    fetch.op \in StreamBackends =>
        /\ fetch.calls[1].url.base = OwnHost[fetch.op]
        /\ \A b \in StreamBackends \ {fetch.op} : fetch.calls[1].url.base # OwnHost[b]
        /\ fetch.calls[1].url.id = fetch.video_id

\* C25: constructing a Client never replaces a User-Agent the caller chose.
\* With a User-Agent on the session and a user_agent argument, construction
\* fails and leaves the session's headers as they were; with a User-Agent on
\* the session and no argument, the session keeps its User-Agent; the default
\* user agent is installed only when neither is present.
C25_UserAgentKept ==
    client.state # "none" =>
        LET given == IF client.session.some THEN client.session.v ELSE <<>>
            onSession == \E i \in 1..Len(given) : given[i][1] \in {"User-Agent", "user-agent"}
            agent == CIGet(client.headers, "User-Agent")
        IN  /\ (onSession /\ client.user_agent.some) =>
                   (client.state = "failed" /\ client.headers = given)
            /\ (onSession /\ ~client.user_agent.some) =>
                   (client.state = "ready" /\ agent = CIGet(given, "User-Agent"))
            /\ (~onSession /\ client.user_agent.some) =>
                   (client.state = "ready" /\ agent = client.user_agent.v)
            /\ (client.state = "ready" /\ agent = DefaultUserAgent) =>
                   (~onSession /\ ~client.user_agent.some)

=============================================================================
